---- MODULE Spec2Model ----
(***************************************************************************)
(* Byte-pair-encoding tokenizer of examples/bpe_tokenizer.py:              *)
(* count_pairs, build_vocab (training) and bpe_encode (application).       *)
(*                                                                         *)
(* One call of a function is a frame: a record holding the locals of the   *)
(* call under the names the source gives them, and pc, the position of     *)
(* the call.  Scan positions are zero-based as in the source; sequences    *)
(* are one-based, so the source's tokens[i] is tokens[i + 1] here.         *)
(* A Python dict is the sequence of its <<key, value>> entries in          *)
(* insertion order, which is the order a dict iterates in.                 *)
(***************************************************************************)
EXTENDS Integers, Sequences, FiniteSets, TLC

VARIABLES
    merges,   \* the merge table handed to bpe_encode (shared by its calls)
    enc,      \* enc[e]: the frame of call e of bpe_encode
    bv,       \* bv[r]: the frame of run r of build_vocab
    cp        \* the frame of the standalone call of count_pairs

vars == <<merges, enc, bv, cp>>

-----------------------------------------------------------------------------
(* Bounds of the model. *)

MaxTextLen == 3      \* code points of a text handed to bpe_encode
MaxTableLen == 2     \* rules of an arbitrary merge table handed to bpe_encode
MaxRawLen == 2       \* code points of a text encoded with the empty table
MaxCorpusLen == 4    \* code points of a training corpus
MaxMerges == 3       \* the largest num_merges
MaxSeqLen == 4       \* tokens of a sequence handed to count_pairs
MaxMainLen == 4      \* code points of corpus and text in the train-then-encode run
MaxConcLen == 3      \* code points of a text of two interleaved calls
MaxSelfLen == 7      \* code points of a corpus encoded with its own table

(* First id of a learned merge: ids 0..255 are raw bytes. *)
FirstMergeId == 256

(* Code points texts are drawn from: 'a', 'b', 'h', 'i' (one byte each) and *)
(* U+00E9 (two bytes, 195 169).                                            *)
EncAlphabet == {97, 233}
CorpusAlphabet == {97, 98, 233}
MainAlphabet == {104, 105}
ConcAlphabet == {97, 98}
(* Boundary code points of each UTF-8 length class (no surrogates: a str   *)
(* holding one is not encodable text).                                     *)
RawAlphabet == {0, 104, 105, 127, 128, 233, 2047, 2048, 8364, 65535, 65536, 1114111}
(* Tokens the rules of an arbitrary table are drawn from. *)
TableTokens == {97, 195, 169, 256}
(* Tokens of a sequence handed to count_pairs. *)
SeqTokens == {1, 2, 256}

Encoders == {1, 2}
Runs == {1, 2}

SeqsUpTo(S, n) == UNION {[1..k -> S] : k \in 0..n}

-----------------------------------------------------------------------------
(* An encoder that writes every code point below 256 as one byte (latin-1). *)
Utf8CharLatin1(c) ==
    IF c < 256 THEN <<c>>
    ELSE IF c < 2048 THEN <<192 + (c \div 64), 128 + (c % 64)>>
    ELSE IF c < 65536 THEN
        <<224 + (c \div 4096), 128 + ((c \div 64) % 64), 128 + (c % 64)>>
    ELSE <<240 + (c \div 262144), 128 + ((c \div 4096) % 64),
           128 + ((c \div 64) % 64), 128 + (c % 64)>>

(* str.encode("utf-8"): one to four bytes per code point. *)
Utf8Char(c) ==
    IF c < 128 THEN <<c>>
    ELSE IF c < 2048 THEN <<192 + (c \div 64), 128 + (c % 64)>>
    ELSE IF c < 65536 THEN
        <<224 + (c \div 4096), 128 + ((c \div 64) % 64), 128 + (c % 64)>>
    ELSE <<240 + (c \div 262144), 128 + ((c \div 4096) % 64),
           128 + ((c \div 64) % 64), 128 + (c % 64)>>

RECURSIVE Utf8(_)
Utf8(text) ==
    IF text = <<>> THEN <<>> ELSE Utf8Char(Head(text)) \o Utf8(Tail(text))

-----------------------------------------------------------------------------
(* dict: `k in d`, d[k], d.get(k, default), d[k] = v. *)

DictHas(d, k) == \E j \in 1..Len(d) : d[j][1] = k

DictIndex(d, k) == CHOOSE j \in 1..Len(d) : d[j][1] = k

DictGet(d, k, default) == IF DictHas(d, k) THEN d[DictIndex(d, k)][2] ELSE default

DictSet(d, k, v) ==
    IF DictHas(d, k) THEN [d EXCEPT ![DictIndex(d, k)] = <<k, v>>]
    ELSE Append(d, <<k, v>>)

DictKeys(d) == {d[j][1] : j \in 1..Len(d)}

-----------------------------------------------------------------------------
(* bpe_encode *)

(* merge_rank after the loop over enumerate(merges) has handled the first  *)
(* n rules.                                                                *)
RECURSIVE MergeRankUpTo(_, _)
MergeRankUpTo(table, n) ==
    IF n = 0 THEN <<>>
    ELSE DictSet(MergeRankUpTo(table, n - 1), table[n], n - 1)

MergeRank(table) == MergeRankUpTo(table, Len(table))

(* Line 41: new_id = 256 + merge_rank[pair] *)
EncNewId(merge_rank, pair) == FirstMergeId + DictGet(merge_rank, pair, -1)

(* A merge that pops the token it has just written: tokens.pop(i). *)
MergeAtPopSelf(tokens, i, new_id) ==
    [j \in 1..(Len(tokens) - 1) |-> IF j < i + 1 THEN tokens[j] ELSE tokens[j + 1]]

(* A merge that overwrites tokens[i] and forgets the pop. *)
MergeAtNoPop(tokens, i, new_id) == [tokens EXCEPT ![i + 1] = new_id]

(* tokens[i] = new_id; tokens.pop(i + 1) *)
MergeAt(tokens, i, new_id) ==
    [j \in 1..(Len(tokens) - 1) |->
        IF j < i + 1 THEN tokens[j]
        ELSE IF j = i + 1 THEN new_id
        ELSE tokens[j + 1]]

PairAt(tokens, i) == <<tokens[i + 1], tokens[i + 2]>>

EncIdle == [pc |-> "idle", text |-> <<>>, tokens |-> <<>>, merge_rank |-> <<>>,
            changed |-> FALSE, i |-> 0, passes |-> 0, len0 |-> 0]

EncCall(text) == [EncIdle EXCEPT !.pc = "call", !.text = text]

(* A setup that builds the lookup by popping the rules off the table. *)
EncEnterConsuming(e) ==
    /\ enc[e].pc = "call"
    /\ enc' = [enc EXCEPT ![e] = [@ EXCEPT !.pc = "while",
                                           !.tokens = Utf8(enc[e].text),
                                           !.merge_rank = MergeRank(merges),
                                           !.changed = TRUE]]
    /\ merges' = <<>>
    /\ UNCHANGED <<bv, cp>>

(* Lines 25-33: the byte tokens, the rank lookup, changed = True. *)
EncEnter(e) ==
    /\ enc[e].pc = "call"
    /\ enc' = [enc EXCEPT ![e] = [@ EXCEPT !.pc = "while",
                                           !.tokens = Utf8(enc[e].text),
                                           !.merge_rank = MergeRank(merges),
                                           !.changed = TRUE]]
    /\ UNCHANGED <<merges, bv, cp>>

(* Lines 34-36: a new pass starts while the last one changed something.    *)
(* passes counts the passes started and len0 is the length at the start of *)
(* the pass (history, not locals of the source).                           *)
EncPassStart(e) ==
    /\ enc[e].pc = "while"
    /\ enc[e].changed
    /\ enc' = [enc EXCEPT ![e] = [@ EXCEPT !.pc = "scan",
                                           !.changed = FALSE,
                                           !.i = 0,
                                           !.passes = @ + 1,
                                           !.len0 = Len(enc[e].tokens)]]
    /\ UNCHANGED <<merges, bv, cp>>

(* Lines 34, 48: the last pass changed nothing: return tokens. *)
EncReturn(e) ==
    /\ enc[e].pc = "while"
    /\ ~enc[e].changed
    /\ enc' = [enc EXCEPT ![e] = [@ EXCEPT !.pc = "done"]]
    /\ UNCHANGED <<merges, bv, cp>>

(* A merge that moves the scan position on. *)
EncMergeAdvance(e) ==
    /\ enc[e].pc = "scan"
    /\ enc[e].i < Len(enc[e].tokens) - 1
    /\ DictHas(enc[e].merge_rank, PairAt(enc[e].tokens, enc[e].i))
    /\ enc' = [enc EXCEPT ![e] =
                 [@ EXCEPT !.tokens = MergeAt(enc[e].tokens, enc[e].i,
                                   EncNewId(enc[e].merge_rank,
                                            PairAt(enc[e].tokens, enc[e].i))),
                           !.changed = TRUE,
                           !.i = @ + 1]]
    /\ UNCHANGED <<merges, bv, cp>>

(* A merge only of the lowest-rank pair present anywhere in the sequence:  *)
(* a key of higher rank at the scan position is passed over.               *)
EncMergeLowestRank(e) ==
    /\ enc[e].pc = "scan"
    /\ enc[e].i < Len(enc[e].tokens) - 1
    /\ DictHas(enc[e].merge_rank, PairAt(enc[e].tokens, enc[e].i))
    /\ LET t == enc[e].tokens
           here == DictGet(enc[e].merge_rank, PairAt(t, enc[e].i), -1)
           lowest == \A j \in 0..(Len(t) - 2) :
                        DictHas(enc[e].merge_rank, PairAt(t, j)) =>
                            here <= DictGet(enc[e].merge_rank, PairAt(t, j), -1)
       IN  IF lowest
           THEN enc' = [enc EXCEPT ![e] =
                   [@ EXCEPT !.tokens = MergeAt(t, enc[e].i, FirstMergeId + here),
                             !.changed = TRUE]]
           ELSE enc' = [enc EXCEPT ![e] = [@ EXCEPT !.i = @ + 1,
                                                    !.changed = TRUE]]
    /\ UNCHANGED <<merges, bv, cp>>

(* A merge that forgets changed = True. *)
EncMergeNoFlag(e) ==
    /\ enc[e].pc = "scan"
    /\ enc[e].i < Len(enc[e].tokens) - 1
    /\ DictHas(enc[e].merge_rank, PairAt(enc[e].tokens, enc[e].i))
    /\ enc' = [enc EXCEPT ![e] =
                 [@ EXCEPT !.tokens = MergeAt(enc[e].tokens, enc[e].i,
                                   EncNewId(enc[e].merge_rank,
                                            PairAt(enc[e].tokens, enc[e].i)))]]
    /\ UNCHANGED <<merges, bv, cp>>

(* A merge on a token list that every call shares. *)
EncMergeShared(e) ==
    /\ enc[e].pc = "scan"
    /\ enc[e].i < Len(enc[e].tokens) - 1
    /\ DictHas(enc[e].merge_rank, PairAt(enc[e].tokens, enc[e].i))
    /\ LET merged == MergeAt(enc[e].tokens, enc[e].i,
                             EncNewId(enc[e].merge_rank,
                                      PairAt(enc[e].tokens, enc[e].i)))
       IN  enc' = [x \in Encoders |->
                     IF x = e THEN [enc[x] EXCEPT !.tokens = merged, !.changed = TRUE]
                     ELSE [enc[x] EXCEPT !.tokens = merged]]
    /\ UNCHANGED <<merges, bv, cp>>

(* Lines 37-44: the pair at the scan position is in the table: it is       *)
(* replaced in place and the scan position stays.                          *)
EncMerge(e) ==
    /\ enc[e].pc = "scan"
    /\ enc[e].i < Len(enc[e].tokens) - 1
    /\ DictHas(enc[e].merge_rank, PairAt(enc[e].tokens, enc[e].i))
    /\ enc' = [enc EXCEPT ![e] =
                 [@ EXCEPT !.tokens = MergeAt(enc[e].tokens, enc[e].i,
                                   EncNewId(enc[e].merge_rank,
                                            PairAt(enc[e].tokens, enc[e].i))),
                           !.changed = TRUE]]
    /\ UNCHANGED <<merges, bv, cp>>

(* Lines 37-39, 45-46: the pair is not in the table: i += 1. *)
EncAdvance(e) ==
    /\ enc[e].pc = "scan"
    /\ enc[e].i < Len(enc[e].tokens) - 1
    /\ ~DictHas(enc[e].merge_rank, PairAt(enc[e].tokens, enc[e].i))
    /\ enc' = [enc EXCEPT ![e] = [@ EXCEPT !.i = @ + 1]]
    /\ UNCHANGED <<merges, bv, cp>>

(* Line 37: the scan reached the last token: the pass is over. *)
EncPassEnd(e) ==
    /\ enc[e].pc = "scan"
    /\ ~(enc[e].i < Len(enc[e].tokens) - 1)
    /\ enc' = [enc EXCEPT ![e] = [@ EXCEPT !.pc = "while"]]
    /\ UNCHANGED <<merges, bv, cp>>

EncStep(e) ==
    \/ EncEnter(e)
    \/ EncPassStart(e)
    \/ EncMerge(e)
    \/ EncAdvance(e)
    \/ EncPassEnd(e)
    \/ EncReturn(e)

(* bpe_encode as a function: the inner while loop from scan position i,    *)
(* the outer loop, the whole call.                                         *)
RECURSIVE ScanPass(_, _, _, _)
ScanPass(tokens, merge_rank, i, changed) ==
    IF i < Len(tokens) - 1
    THEN IF DictHas(merge_rank, PairAt(tokens, i))
         THEN ScanPass(MergeAt(tokens, i, EncNewId(merge_rank, PairAt(tokens, i))),
                       merge_rank, i, TRUE)
         ELSE ScanPass(tokens, merge_rank, i + 1, changed)
    ELSE [tokens |-> tokens, changed |-> changed]

RECURSIVE MergeLoop(_, _)
MergeLoop(tokens, merge_rank) ==
    LET pass == ScanPass(tokens, merge_rank, 0, FALSE)
    IN  IF pass.changed THEN MergeLoop(pass.tokens, merge_rank) ELSE pass.tokens

bpe_encode(text, table) == MergeLoop(Utf8(text), MergeRank(table))

-----------------------------------------------------------------------------
(* count_pairs *)

(* A count that starts at one: counts.get(pair, 1) + 1. *)
CountAtFromOne(counts, tokens, i) ==
    DictSet(counts, PairAt(tokens, i), DictGet(counts, PairAt(tokens, i), 1) + 1)

(* Lines 55-56: counts[pair] = counts.get(pair, 0) + 1 for the pair at i. *)
CountAt(counts, tokens, i) ==
    DictSet(counts, PairAt(tokens, i), DictGet(counts, PairAt(tokens, i), 0) + 1)

CpIdle == [pc |-> "idle", tokens |-> <<>>, i |-> 0, counts |-> <<>>]

CpCall(tokens) == [CpIdle EXCEPT !.pc = "call", !.tokens = tokens]

(* Line 53: counts = {} *)
CpEnter ==
    /\ cp.pc = "call"
    /\ cp' = [cp EXCEPT !.pc = "for", !.counts = <<>>, !.i = 0]
    /\ UNCHANGED <<merges, enc, bv>>

(* Lines 54-56: one iteration of the loop over range(len(tokens) - 1). *)
CpIter ==
    /\ cp.pc = "for"
    /\ cp.i < Len(cp.tokens) - 1
    /\ cp' = [cp EXCEPT !.counts = CountAt(cp.counts, cp.tokens, cp.i),
                        !.i = @ + 1]
    /\ UNCHANGED <<merges, enc, bv>>

(* Lines 54, 57: the range is exhausted: return counts. *)
CpReturn ==
    /\ cp.pc = "for"
    /\ ~(cp.i < Len(cp.tokens) - 1)
    /\ cp' = [cp EXCEPT !.pc = "done"]
    /\ UNCHANGED <<merges, enc, bv>>

(* count_pairs as a function: counts after the iterations i = 0..n-1. *)
RECURSIVE CountUpTo(_, _)
CountUpTo(tokens, n) ==
    IF n <= 0 THEN <<>>
    ELSE CountAt(CountUpTo(tokens, n - 1), tokens, n - 1)

count_pairs(tokens) == CountUpTo(tokens, Len(tokens) - 1)

-----------------------------------------------------------------------------
(* build_vocab *)

(* The keys of the largest count, whatever their position. *)
AnyMaxKey(counts) ==
    {counts[j][1] : j \in {j \in 1..Len(counts) :
        \A m \in 1..Len(counts) : counts[m][2] <= counts[j][2]}}

(* The last key of the largest count. *)
LastMaxKey(counts) ==
    {counts[j][1] : j \in {j \in 1..Len(counts) :
        /\ \A m \in 1..Len(counts) : counts[m][2] <= counts[j][2]
        /\ \A m \in (j + 1)..Len(counts) : counts[m][2] < counts[j][2]}}

(* Line 69: max(counts, key=lambda p: counts[p]).  max iterates the dict   *)
(* in insertion order and keeps the first key whose count no later key     *)
(* exceeds: the first key of the largest count.  The value is the set of   *)
(* results max may give: one key, or none for an empty dict (ValueError).  *)
MaxKey(counts) ==
    {counts[j][1] : j \in {j \in 1..Len(counts) :
        /\ \A m \in 1..Len(counts) : counts[m][2] <= counts[j][2]
        /\ \A m \in 1..(j - 1) : counts[m][2] < counts[j][2]}}

(* An early exit that is never taken. *)
NeverFalsy(counts) == FALSE

(* Line 67: `not counts` *)
Falsy(counts) == counts = <<>>

(* A loop that runs once less: range(num_merges - 1). *)
InRangeShort(k, num_merges) == k < num_merges - 1

(* Line 65: the loop over range(num_merges) has iterations left. *)
InRange(k, num_merges) == k < num_merges

(* An id that starts at 257. *)
BvNewIdOffByOne(merges_) == FirstMergeId + Len(merges_)

(* Line 71: new_id = 256 + len(merges) - 1, merges holding the new rule. *)
BvNewId(merges_) == FirstMergeId + Len(merges_) - 1

(* A rewrite that advances one position after a replacement. *)
RECURSIVE ReplaceOverlappingFrom(_, _, _, _, _)
ReplaceOverlappingFrom(tokens, best, new_id, i, new_tokens) ==
    IF i < Len(tokens)
    THEN IF i < Len(tokens) - 1 /\ PairAt(tokens, i) = best
         THEN ReplaceOverlappingFrom(tokens, best, new_id, i + 1,
                                     Append(new_tokens, new_id))
         ELSE ReplaceOverlappingFrom(tokens, best, new_id, i + 1,
                                     Append(new_tokens, tokens[i + 1]))
    ELSE new_tokens

ReplaceOverlapping(tokens, best, new_id) ==
    ReplaceOverlappingFrom(tokens, best, new_id, 0, <<>>)

(* A rewrite whose result is dropped: tokens stays as it was. *)
ReplaceDropped(tokens, best, new_id) == tokens

(* A rewrite that replaces the first occurrence only. *)
RECURSIVE ReplaceFirstFrom(_, _, _, _, _)
ReplaceFirstFrom(tokens, best, new_id, i, new_tokens) ==
    IF i < Len(tokens)
    THEN IF i < Len(tokens) - 1 /\ PairAt(tokens, i) = best
         THEN Append(new_tokens, new_id) \o SubSeq(tokens, i + 3, Len(tokens))
         ELSE ReplaceFirstFrom(tokens, best, new_id, i + 1,
                               Append(new_tokens, tokens[i + 1]))
    ELSE new_tokens

(* Lines 75-81: the rewrite loop from position i with new_tokens so far. *)
RECURSIVE ReplaceFrom(_, _, _, _, _)
ReplaceFrom(tokens, best, new_id, i, new_tokens) ==
    IF i < Len(tokens)
    THEN IF i < Len(tokens) - 1 /\ PairAt(tokens, i) = best
         THEN ReplaceFrom(tokens, best, new_id, i + 2, Append(new_tokens, new_id))
         ELSE ReplaceFrom(tokens, best, new_id, i + 1,
                          Append(new_tokens, tokens[i + 1]))
    ELSE new_tokens

ReplaceFirst(tokens, best, new_id) == ReplaceFirstFrom(tokens, best, new_id, 0, <<>>)

(* Lines 73-82: tokens with every occurrence of best replaced, left to     *)
(* right, without overlap.                                                 *)
Replace(tokens, best, new_id) == ReplaceFrom(tokens, best, new_id, 0, <<>>)

BvIdle == [pc |-> "idle", text |-> <<>>, num_merges |-> 0, tokens |-> <<>>,
           merges |-> <<>>, k |-> 0]

BvCall(text, num_merges) ==
    [BvIdle EXCEPT !.pc = "call", !.text = text, !.num_merges = num_merges]

(* Lines 62-63: the byte tokens and the empty rule list. *)
BvEnter(r) ==
    /\ bv[r].pc = "call"
    /\ bv' = [bv EXCEPT ![r] = [@ EXCEPT !.pc = "for",
                                         !.tokens = Utf8(bv[r].text),
                                         !.merges = <<>>,
                                         !.k = 0]]
    /\ UNCHANGED <<merges, enc, cp>>

(* Lines 65-68: no pair is left to count: break, and return merges. *)
BvBreak(r) ==
    /\ bv[r].pc = "for"
    /\ InRange(bv[r].k, bv[r].num_merges)
    /\ Falsy(count_pairs(bv[r].tokens))
    /\ bv' = [bv EXCEPT ![r] = [@ EXCEPT !.pc = "done"]]
    /\ UNCHANGED <<merges, enc, cp>>

(* Lines 65-82: one training step: count, select, append, rewrite.  max of *)
(* an empty dict raises ValueError.                                        *)
BvMerge(r) ==
    /\ bv[r].pc = "for"
    /\ InRange(bv[r].k, bv[r].num_merges)
    /\ LET counts == count_pairs(bv[r].tokens)
       IN  /\ ~Falsy(counts)
           /\ IF MaxKey(counts) = {}
              THEN bv' = [bv EXCEPT ![r] = [@ EXCEPT !.pc = "raised"]]
              ELSE \E best \in MaxKey(counts) :
                     LET merges_ == Append(bv[r].merges, best)
                     IN  bv' = [bv EXCEPT ![r] =
                                  [@ EXCEPT !.merges = merges_,
                                            !.tokens = Replace(bv[r].tokens, best,
                                                               BvNewId(merges_)),
                                            !.k = @ + 1]]
    /\ UNCHANGED <<merges, enc, cp>>

(* Lines 65, 84: the budget is spent: return merges. *)
BvReturn(r) ==
    /\ bv[r].pc = "for"
    /\ ~InRange(bv[r].k, bv[r].num_merges)
    /\ bv' = [bv EXCEPT ![r] = [@ EXCEPT !.pc = "done"]]
    /\ UNCHANGED <<merges, enc, cp>>

BvStep(r) ==
    \/ BvEnter(r)
    \/ BvBreak(r)
    \/ BvMerge(r)
    \/ BvReturn(r)

-----------------------------------------------------------------------------
(* One call of bpe_encode on any text with any table, and on texts of      *)
(* every UTF-8 length class with the empty table.                          *)

Pairs(S) == S \X S

InitEnc ==
    /\ \/ /\ merges \in SeqsUpTo(Pairs(TableTokens), MaxTableLen)
          /\ \E text \in SeqsUpTo(EncAlphabet, MaxTextLen) :
                enc = [e \in Encoders |-> IF e = 1 THEN EncCall(text) ELSE EncIdle]
       \/ /\ merges = <<>>
          /\ \E text \in SeqsUpTo(RawAlphabet, MaxRawLen) :
                enc = [e \in Encoders |-> IF e = 1 THEN EncCall(text) ELSE EncIdle]
    /\ bv = [r \in Runs |-> BvIdle]
    /\ cp = CpIdle

NextEnc == EncStep(1)

SpecEnc == InitEnc /\ [][NextEnc]_vars

(* bpe_encode has no suspension point: a call that can take a step does. *)
FairSpecEnc == SpecEnc /\ WF_vars(NextEnc)

-----------------------------------------------------------------------------
(* One call of count_pairs on any token sequence. *)

InitCount ==
    /\ merges = <<>>
    /\ enc = [e \in Encoders |-> EncIdle]
    /\ bv = [r \in Runs |-> BvIdle]
    /\ \E tokens \in SeqsUpTo(SeqTokens, MaxSeqLen) : cp = CpCall(tokens)

NextCount == CpEnter \/ CpIter \/ CpReturn

SpecCount == InitCount /\ [][NextCount]_vars

-----------------------------------------------------------------------------
(* Two runs of build_vocab on one corpus, each with a budget of its own. *)

InitTrain ==
    /\ merges = <<>>
    /\ enc = [e \in Encoders |-> EncIdle]
    /\ \E text \in SeqsUpTo(CorpusAlphabet, MaxCorpusLen) :
       \E n1, n2 \in 0..MaxMerges :
           bv = [r \in Runs |-> BvCall(text, IF r = 1 THEN n1 ELSE n2)]
    /\ cp = CpIdle

NextTrain == \E r \in Runs : BvStep(r)

SpecTrain == InitTrain /\ [][NextTrain]_vars

-----------------------------------------------------------------------------
(* Lines 97-105 of the script: train a table on a corpus, then encode a    *)
(* text with it.                                                           *)

MainEncode ==
    /\ bv[1].pc = "done"
    /\ enc[1].pc = "wait"
    /\ merges' = bv[1].merges
    /\ enc' = [enc EXCEPT ![1] = [@ EXCEPT !.pc = "call"]]
    /\ UNCHANGED <<bv, cp>>

InitMain ==
    /\ merges = <<>>
    /\ \E text \in SeqsUpTo(MainAlphabet, MaxMainLen) :
          enc = [e \in Encoders |->
                    IF e = 1 THEN [EncCall(text) EXCEPT !.pc = "wait"] ELSE EncIdle]
    /\ \E text \in SeqsUpTo(MainAlphabet, MaxMainLen) :
       \E n \in 0..MaxMerges :
           bv = [r \in Runs |-> IF r = 1 THEN BvCall(text, n) ELSE BvIdle]
    /\ cp = CpIdle

NextMain == BvStep(1) \/ MainEncode \/ EncStep(1)

SpecMain == InitMain /\ [][NextMain]_vars

-----------------------------------------------------------------------------
(* Train a table on a corpus, then encode the corpus itself with it. *)

InitSelf ==
    /\ merges = <<>>
    /\ \E text \in SeqsUpTo(MainAlphabet, MaxSelfLen) :
       \E n \in 0..MaxMerges :
           /\ enc = [e \in Encoders |->
                       IF e = 1 THEN [EncCall(text) EXCEPT !.pc = "wait"]
                       ELSE EncIdle]
           /\ bv = [r \in Runs |-> IF r = 1 THEN BvCall(text, n) ELSE BvIdle]
    /\ cp = CpIdle

SpecSelf == InitSelf /\ [][NextMain]_vars

-----------------------------------------------------------------------------
(* Two calls of bpe_encode, on a text each, interleaved step by step,      *)
(* with one table: empty, one rule, a chain merged within a pass, a rule   *)
(* whose left token is formed a pass later, a pair listed twice.           *)

ConcTables ==
    { <<>>,
      <<(<<97, 98>>)>>,
      <<(<<97, 98>>), <<256, 97>>>>,
      <<(<<97, 98>>), <<97, 256>>>>,
      <<(<<98, 98>>), <<97, 98>>, <<98, 98>>>> }

InitConc ==
    /\ merges \in ConcTables
    /\ \E text1, text2 \in SeqsUpTo(ConcAlphabet, MaxConcLen) :
          enc = [e \in Encoders |-> EncCall(IF e = 1 THEN text1 ELSE text2)]
    /\ bv = [r \in Runs |-> BvIdle]
    /\ cp = CpIdle

NextConc == \E e \in Encoders : EncStep(e)

SpecConc == InitConc /\ [][NextConc]_vars

-----------------------------------------------------------------------------
(* Properties of bpe_encode. *)

Max(a, b) == IF a >= b THEN a ELSE b

TableKeys == {merges[n] : n \in 1..Len(merges)}

(* C1: the sequence bpe_encode returns is a fixed point: no adjacent pair  *)
(* of it is a key of the table, and one more pass of the merge loop over   *)
(* it with the same table merges nothing and returns it unchanged.         *)
C1_FixedPoint ==
    \A e \in Encoders :
        enc[e].pc = "done" =>
            /\ \A j \in 0..(Len(enc[e].tokens) - 2) :
                    PairAt(enc[e].tokens, j) \notin TableKeys
            /\ ScanPass(enc[e].tokens, MergeRank(merges), 0, FALSE)
                 = [tokens |-> enc[e].tokens, changed |-> FALSE]

(* A call that needed two merging passes and returns two tokens or more. *)
C1_Witness ==
    /\ enc[1].pc = "done"
    /\ enc[1].passes >= 3
    /\ Len(enc[1].tokens) >= 2

(* A pass that merged left the sequence strictly shorter than it was at    *)
(* the start of the pass; a pass that did not left it as it was.           *)
C2_PassShrinks ==
    \A e \in Encoders :
        /\ enc[e].pc = "scan" =>
              (enc[e].changed <=> Len(enc[e].tokens) < enc[e].len0)
        /\ (enc[e].pc \in {"while", "done"} /\ enc[e].passes > 0) =>
              /\ enc[e].changed => Len(enc[e].tokens) < enc[e].len0
              /\ ~enc[e].changed => Len(enc[e].tokens) = enc[e].len0

(* C2 as stated: every pass merges nothing or leaves the sequence          *)
(* strictly shorter, and the passes executed are at most the number of     *)
(* UTF-8 bytes of the text.                                                *)
C2_PassesAtMostLength ==
    /\ C2_PassShrinks
    /\ \A e \in Encoders : enc[e].passes <= Len(Utf8(enc[e].text))

(* The passes are at most max(1, initial length): the empty text still    *)
(* takes one pass, which examines nothing.                                 *)
C2_PassBound ==
    /\ C2_PassShrinks
    /\ \A e \in Encoders : enc[e].passes <= Max(1, Len(Utf8(enc[e].text)))

C2_Returned == enc[1].pc = "done"

(* C2, amended: bpe_encode terminates: every pass merges nothing or       *)
(* leaves the sequence strictly shorter, the passes executed are at most   *)
(* max(1, number of UTF-8 bytes of the text), and the call returns.        *)
C2_Terminates == []C2_PassBound /\ <>C2_Returned

(* A call that took as many passes as the text has bytes, three or more. *)
C2_Witness ==
    /\ enc[1].pc = "done"
    /\ enc[1].passes = Len(Utf8(enc[1].text))
    /\ enc[1].passes >= 3

(* A strict UTF-8 decoder: the code points of a byte sequence, or <<-1>>   *)
(* when the bytes are not the UTF-8 encoding of any text.                  *)
IsCont(b) == b \in 128..191

Utf8Width(b) ==
    IF b < 128 THEN 1
    ELSE IF b \in 194..223 THEN 2
    ELSE IF b \in 224..239 THEN 3
    ELSE IF b \in 240..244 THEN 4
    ELSE 0

Utf8Scalar(bytes, w) ==
    IF w = 1 THEN bytes[1]
    ELSE IF w = 2 THEN (bytes[1] - 192) * 64 + (bytes[2] - 128)
    ELSE IF w = 3 THEN (bytes[1] - 224) * 4096 + (bytes[2] - 128) * 64
                        + (bytes[3] - 128)
    ELSE (bytes[1] - 240) * 262144 + (bytes[2] - 128) * 4096
         + (bytes[3] - 128) * 64 + (bytes[4] - 128)

Utf8WellFormed(bytes, w) ==
    /\ w > 0
    /\ Len(bytes) >= w
    /\ \A j \in 2..w : IsCont(bytes[j])
    /\ LET c == Utf8Scalar(bytes, w)
       IN  /\ w = 2 => c >= 128
           /\ w = 3 => c >= 2048 /\ c \notin 55296..57343
           /\ w = 4 => c >= 65536 /\ c <= 1114111

RECURSIVE Utf8Decode(_)
Utf8Decode(bytes) ==
    IF bytes = <<>> THEN <<>>
    ELSE LET w == Utf8Width(bytes[1])
         IN  IF ~Utf8WellFormed(bytes, w) THEN <<-1>>
             ELSE LET rest == Utf8Decode(SubSeq(bytes, w + 1, Len(bytes)))
                  IN  IF rest = <<-1>> THEN <<-1>>
                      ELSE <<Utf8Scalar(bytes, w)>> \o rest

(* C8: with the empty table bpe_encode returns the UTF-8 bytes of the      *)
(* text, one token per byte, each in 0..255: they decode to the text, the  *)
(* empty text gives the empty sequence, "hi" gives [104, 105].             *)
C8_EmptyTableRawBytes ==
    \A e \in Encoders :
        (enc[e].pc = "done" /\ merges = <<>>) =>
            /\ \A j \in 1..Len(enc[e].tokens) : enc[e].tokens[j] \in 0..255
            /\ Utf8Decode(enc[e].tokens) = enc[e].text
            /\ enc[e].text = <<>> => enc[e].tokens = <<>>
            /\ enc[e].text = <<104, 105>> => enc[e].tokens = <<104, 105>>
            /\ enc[e].text = <<233, 8364>> =>
                  enc[e].tokens = <<195, 169, 226, 130, 172>>

(* The empty table and a text of a two-byte and a four-byte character. *)
C8_Witness ==
    /\ enc[1].pc = "done"
    /\ merges = <<>>
    /\ enc[1].text = <<233, 65536>>
    /\ enc[1].tokens = <<195, 169, 240, 144, 128, 128>>

-----------------------------------------------------------------------------
(* Properties of build_vocab. *)

Min(a, b) == IF a <= b THEN a ELSE b

Returned(r) == bv[r].pc = "done"

AdjacentPairs(tokens) == {PairAt(tokens, j) : j \in 0..(Len(tokens) - 2)}

(* C3: two runs of build_vocab on the same corpus with the same num_merges *)
(* return the same merge list, pair by pair, also when pairs tie for the   *)
(* largest count.                                                          *)
C3_Deterministic ==
    \A r1, r2 \in Runs :
        (/\ Returned(r1) /\ Returned(r2)
         /\ bv[r1].text = bv[r2].text
         /\ bv[r1].num_merges = bv[r2].num_merges)
        => bv[r1].merges = bv[r2].merges

(* Both runs returned two rules or more, and at the first step two pairs   *)
(* or more had the largest count.                                          *)
C3_Witness ==
    /\ Returned(1) /\ Returned(2)
    /\ bv[1].num_merges = bv[2].num_merges
    /\ Len(bv[1].merges) >= 2
    /\ Cardinality(AnyMaxKey(count_pairs(Utf8(bv[1].text)))) >= 2

(* C4: with budgets k < n on one corpus, the list of budget k is the first *)
(* k rules of the list of budget n (all of them when it has fewer).        *)
C4_PrefixStable ==
    \A r1, r2 \in Runs :
        (/\ Returned(r1) /\ Returned(r2)
         /\ bv[r1].text = bv[r2].text
         /\ bv[r1].num_merges < bv[r2].num_merges)
        => bv[r1].merges
             = SubSeq(bv[r2].merges, 1, Min(bv[r1].num_merges, Len(bv[r2].merges)))

(* The smaller budget returned a rule and the larger one more rules. *)
C4_Witness ==
    /\ Returned(1) /\ Returned(2)
    /\ bv[1].num_merges < bv[2].num_merges
    /\ Len(bv[1].merges) >= 1
    /\ Len(bv[2].merges) > Len(bv[1].merges)

(* C5: the merge list of build_vocab never holds a pair twice, and a pair  *)
(* once chosen is adjacent nowhere in the sequence at any later step.      *)
C5_NoPairTwice ==
    \A r \in Runs :
        /\ \A a, b \in 1..Len(bv[r].merges) :
              a # b => bv[r].merges[a] # bv[r].merges[b]
        /\ \A n \in 1..Len(bv[r].merges) :
              bv[r].merges[n] \notin AdjacentPairs(bv[r].tokens)

(* The self-pair (97, 97) over a run of three, and a later step. *)
C5_Witness ==
    /\ bv[1].text = <<97, 97, 97>>
    /\ Len(bv[1].merges) = 2
    /\ bv[1].merges[1] = <<97, 97>>

(* C9: build_vocab raises nothing and returns at most num_merges rules;    *)
(* it returns fewer only when the pair count of its sequence is empty,     *)
(* which is when the sequence has fewer than two tokens; num_merges = 0    *)
(* and a corpus of fewer than two bytes give the empty table.              *)
C9_AtMostBudget ==
    \A r \in Runs :
        /\ bv[r].pc # "raised"
        /\ Len(bv[r].merges) <= bv[r].num_merges
        /\ count_pairs(bv[r].tokens) = <<>> <=> Len(bv[r].tokens) < 2
        /\ Returned(r) =>
              (Len(bv[r].merges) < bv[r].num_merges => Len(bv[r].tokens) < 2)
        /\ bv[r].num_merges = 0 => bv[r].merges = <<>>
        /\ Len(Utf8(bv[r].text)) < 2 => bv[r].merges = <<>>

(* A run that learned a rule and stopped before its budget was spent. *)
C9_Witness ==
    /\ Returned(1)
    /\ Len(bv[1].merges) >= 1
    /\ Len(bv[1].merges) < bv[1].num_merges

-----------------------------------------------------------------------------
(* Properties of count_pairs. *)

Occurrences(tokens, pair) ==
    Cardinality({j \in 0..(Len(tokens) - 2) : PairAt(tokens, j) = pair})

RECURSIVE SumValues(_)
SumValues(d) == IF d = <<>> THEN 0 ELSE d[1][2] + SumValues(Tail(d))

(* C7: count_pairs(t) maps each pair to the number of positions it occurs  *)
(* at, has no key for a pair that does not occur, its values sum to        *)
(* max(0, len(t) - 1), and it is empty for a sequence of length 0 or 1.    *)
C7_CountsOccurrences ==
    cp.pc = "done" =>
        /\ \A a, b \in 1..Len(cp.counts) : a # b => cp.counts[a][1] # cp.counts[b][1]
        /\ \A pair \in Pairs(SeqTokens) :
              IF Occurrences(cp.tokens, pair) = 0
              THEN ~DictHas(cp.counts, pair)
              ELSE /\ DictHas(cp.counts, pair)
                   /\ DictGet(cp.counts, pair, 0) = Occurrences(cp.tokens, pair)
        /\ \A j \in 1..Len(cp.counts) : cp.counts[j][2] >= 1
        /\ SumValues(cp.counts) = Max(0, Len(cp.tokens) - 1)
        /\ Len(cp.tokens) <= 1 => cp.counts = <<>>
        /\ cp.tokens = <<1, 2, 1, 2>> =>
              cp.counts = << <<(<<1, 2>>), 2>>, <<(<<2, 1>>), 1>> >>
        /\ cp.counts = count_pairs(cp.tokens)

(* The sequence [1, 2, 1, 2] of the test. *)
C7_Witness ==
    /\ cp.pc = "done"
    /\ cp.tokens = <<1, 2, 1, 2>>
    /\ Len(cp.counts) = 2

-----------------------------------------------------------------------------
(* Properties of training and encoding together. *)

TokenSet(tokens) == {tokens[j] : j \in 1..Len(tokens)}

(* The lookup of a table of N rules holds the ids 256..255+N, no token of  *)
(* a sequence is beyond them, and encode("hi", [(104, 105)]) = [256].      *)
C6_IdsOfTable ==
    /\ \A e \in Encoders :
          enc[e].pc \in {"while", "scan", "done"} =>
              /\ {256 + enc[e].merge_rank[j][2] : j \in 1..Len(enc[e].merge_rank)}
                   = 256..(255 + Len(merges))
              /\ TokenSet(enc[e].tokens) \subseteq 0..(255 + Len(merges))
    /\ \A r \in Runs :
          TokenSet(bv[r].tokens) \subseteq 0..(255 + Len(bv[r].merges))
    /\ (/\ enc[1].pc = "done"
        /\ enc[1].text = <<104, 105>>
        /\ merges = <<(<<104, 105>>)>>) => enc[1].tokens = <<256>>

(* A training step that appends the rule at position rank introduces the   *)
(* id 256 + rank and no other, once per pair replaced; a merge of          *)
(* bpe_encode writes 256 + rank for the rule at position rank that holds   *)
(* the merged pair.                                                        *)
C6_Substituted ==
    /\ \A r \in Runs :
          Len(bv'[r].merges) = Len(bv[r].merges) + 1 =>
              LET rank == Len(bv[r].merges)
              IN  /\ TokenSet(bv'[r].tokens) \ TokenSet(bv[r].tokens) = {256 + rank}
                  /\ Cardinality({j \in 1..Len(bv'[r].tokens) :
                                    bv'[r].tokens[j] = 256 + rank})
                       = Len(bv[r].tokens) - Len(bv'[r].tokens)
    /\ \A e \in Encoders :
          (enc[e].pc = "scan" /\ Len(enc'[e].tokens) = Len(enc[e].tokens) - 1) =>
              \E rank \in 0..(Len(merges) - 1) :
                  /\ merges[rank + 1] = PairAt(enc[e].tokens, enc[e].i)
                  /\ enc'[e].tokens[enc[e].i + 1] = 256 + rank

(* C6: the id substituted for the rule at zero-based position r of the     *)
(* merge list is 256 + r, when build_vocab rewrites its sequence and when  *)
(* bpe_encode applies the table; a table of N rules uses the ids           *)
(* 256..255+N; encode("hi", [(104, 105)]) = [256].                         *)
C6_IdIsRankPlus256 == []C6_IdsOfTable /\ [][C6_Substituted]_vars

(* The encoder applied the rule at position 1 of a trained table. *)
C6_Witness ==
    /\ enc[1].pc = "done"
    /\ Len(merges) >= 2
    /\ 257 \in TokenSet(enc[1].tokens)

-----------------------------------------------------------------------------
(* Properties of interleaved calls of bpe_encode. *)

(* C10: calls of bpe_encode interleaved step by step on one shared table   *)
(* each return what the call returns when it runs alone, and each holds    *)
(* the rank lookup it built from the table.                                *)
C10_SameAsAlone ==
    \A e \in Encoders :
        /\ enc[e].pc \in {"while", "scan", "done"} =>
              enc[e].merge_rank = MergeRank(merges)
        /\ enc[e].pc = "done" => enc[e].tokens = bpe_encode(enc[e].text, merges)

(* One call has returned a merged sequence while the other, on another     *)
(* text, is in the middle of a pass in which it has merged.                *)
C10_Witness ==
    /\ enc[1].pc = "done"
    /\ enc[1].passes >= 2
    /\ enc[2].pc = "scan"
    /\ enc[2].changed
    /\ enc[2].i >= 1
    /\ enc[1].text # enc[2].text

-----------------------------------------------------------------------------
(* Frame of bpe_encode. *)

(* C11: no step of a call of bpe_encode changes the merge table it was     *)
(* given (its length, order and pairs stay those of call entry), nor any   *)
(* frame but the call's own.                                               *)
C11_TableUnchanged ==
    [][/\ merges' = merges
       /\ bv' = bv
       /\ cp' = cp
       /\ \A e \in Encoders : enc[e].pc = "idle" => enc'[e] = enc[e]]_vars

(* A call that merged with a table of two rules has returned. *)
C11_Witness ==
    /\ enc[1].pc = "done"
    /\ Len(merges) = 2
    /\ Len(enc[1].tokens) < Len(Utf8(enc[1].text))
    /\ Len(enc[1].merge_rank) = 2

-----------------------------------------------------------------------------
(* Steps of build_vocab. *)

FirstOccurrence(tokens, pair) ==
    CHOOSE j \in 0..(Len(tokens) - 2) :
        /\ PairAt(tokens, j) = pair
        /\ \A m \in 0..(j - 1) : PairAt(tokens, m) # pair

MaxPairs(tokens) ==
    {p \in AdjacentPairs(tokens) :
        \A q \in AdjacentPairs(tokens) :
            Occurrences(tokens, q) <= Occurrences(tokens, p)}

(* The rule a training step appends. *)
Appends(r) == Len(bv'[r].merges) = Len(bv[r].merges) + 1

NewRule(r) == bv'[r].merges[Len(bv'[r].merges)]

(* C12: the pair a training step selects has the largest count in the      *)
(* current sequence, and among the pairs of that count it is the one       *)
(* whose first occurrence is earliest.                                     *)
C12_Selected ==
    \A r \in Runs :
        Appends(r) =>
            /\ bv'[r].merges = Append(bv[r].merges, NewRule(r))
            /\ NewRule(r) \in MaxPairs(bv[r].tokens)
            /\ \A p \in MaxPairs(bv[r].tokens) :
                  FirstOccurrence(bv[r].tokens, NewRule(r))
                    <= FirstOccurrence(bv[r].tokens, p)

C12_SelectsEarliestMax == [][C12_Selected]_vars

(* The first step chose among three pairs of the largest count. *)
C12_Witness ==
    /\ Len(bv[1].merges) = 1
    /\ Cardinality(MaxPairs(Utf8(bv[1].text))) >= 3
    /\ bv[1].merges[1] = PairAt(Utf8(bv[1].text), 0)

(* tokens with every new_id written back as the two tokens of pair. *)
RECURSIVE ExpandOne(_, _, _)
ExpandOne(tokens, new_id, pair) ==
    IF tokens = <<>> THEN <<>>
    ELSE (IF Head(tokens) = new_id THEN pair ELSE <<Head(tokens)>>)
         \o ExpandOne(Tail(tokens), new_id, pair)

(* The rewrite of one training step: writing the new id back as the pair   *)
(* gives the old sequence (the replaced pairs do not overlap and every     *)
(* other token keeps its place in the order), no occurrence of the pair    *)
(* is left, each replacement shortens the sequence by one, and the         *)
(* leftover token of an odd run of a self-pair comes after the new ids.    *)
C13_Rewrite ==
    \A r \in Runs :
        Appends(r) =>
            LET new_id == 256 + Len(bv[r].merges)
                best == NewRule(r)
            IN  /\ ExpandOne(bv'[r].tokens, new_id, best) = bv[r].tokens
                /\ best \notin AdjacentPairs(bv'[r].tokens)
                /\ Cardinality({j \in 1..Len(bv'[r].tokens) :
                                  bv'[r].tokens[j] = new_id})
                     = Len(bv[r].tokens) - Len(bv'[r].tokens)
                /\ best[1] = best[2] =>
                      <<best[1], new_id>> \notin AdjacentPairs(bv'[r].tokens)

(* [97,97,97,97] -> [256,256] and [97,97,97] -> [256,97]. *)
C13_Runs ==
    \A r \in Runs :
        Len(bv[r].merges) = 1 =>
            /\ bv[r].text = <<97, 97, 97, 97>> => bv[r].tokens = <<256, 256>>
            /\ bv[r].text = <<97, 97, 97>> => bv[r].tokens = <<256, 97>>

(* C13: a training step rewrites the sequence in one left-to-right pass    *)
(* without overlap: the winning pair becomes the new id and the scan       *)
(* advances by two, any other token is copied; a run of k tokens a under   *)
(* the pair (a, a) becomes k div 2 new ids and then k mod 2 copies of a.   *)
C13_SinglePassRewrite == []C13_Runs /\ [][C13_Rewrite]_vars

(* A run of three after another token: [98,97,97,97] -> [98,256,97]. *)
C13_Witness ==
    /\ bv[1].text = <<98, 97, 97, 97>>
    /\ bv[1].merges = <<(<<97, 97>>)>>
    /\ bv[1].tokens = <<98, 256, 97>>

-----------------------------------------------------------------------------
(* Steps of bpe_encode. *)

(* A step of the inner loop of call e. *)
ScanStep(e) == enc[e].pc = "scan" /\ enc'[e].pc = "scan" /\ enc'[e] # enc[e]

(* The zero-based position the lookup gives a pair: its last in the table. *)
LastPosition(pair) ==
    CHOOSE n \in 0..(Len(merges) - 1) :
        /\ merges[n + 1] = pair
        /\ \A m \in (n + 1)..(Len(merges) - 1) : merges[m + 1] # pair

(* A step of the inner loop: if the pair at the scan position is no key of *)
(* the table the position advances by one and the sequence stays; if it is *)
(* a key, the pair is replaced in place by its id, the sequence shrinks by *)
(* one and the position stays.                                             *)
C14_Step ==
    \A e \in Encoders :
        ScanStep(e) =>
            LET t == enc[e].tokens
                u == enc'[e].tokens
                i == enc[e].i
            IN  IF PairAt(t, i) \in TableKeys
                THEN /\ enc'[e].i = i
                     /\ Len(u) = Len(t) - 1
                     /\ u[i + 1] = 256 + LastPosition(PairAt(t, i))
                     /\ \A j \in 1..i : u[j] = t[j]
                     /\ \A j \in (i + 2)..Len(u) : u[j] = t[j + 1]
                     /\ enc'[e].changed
                ELSE /\ enc'[e].i = i + 1
                     /\ u = t
                     /\ enc'[e].changed = enc[e].changed

(* Table [(195,169), (256,97)] on the bytes 195, 169, 97: the token formed *)
(* at position 0 is merged with its right neighbour in the same pass.      *)
C14_Chain ==
    \A e \in Encoders :
        (/\ enc[e].pc = "done"
         /\ enc[e].text = <<233, 97>>
         /\ merges = << <<195, 169>>, <<256, 97>> >>)
        => enc[e].tokens = <<257>> /\ enc[e].passes = 2

(* C14: within a pass the scan position advances by one only when the pair *)
(* at it is no key of the table; a key is replaced in place, the sequence  *)
(* shrinks by one and the position stays, so a token just formed is merged *)
(* with its right neighbour in the same pass.                              *)
C14_MergeInPlace == []C14_Chain /\ [][C14_Step]_vars

(* The chain [(195,169), (256,97)] on 195, 169, 97 gave [257]. *)
C14_Witness ==
    /\ enc[1].pc = "done"
    /\ enc[1].text = <<233, 97>>
    /\ merges = << <<195, 169>>, <<256, 97>> >>
    /\ enc[1].tokens = <<257>>

(* The reference encoder of rank priority: while a pair of the table is    *)
(* present, merge the leftmost occurrence of the present pair of lowest    *)
(* rank, and nothing else.                                                 *)
RECURSIVE RankPriorityEncode(_, _)
RankPriorityEncode(tokens, table) ==
    LET present == {n \in 1..Len(table) : table[n] \in AdjacentPairs(tokens)}
    IN  IF present = {} THEN tokens
        ELSE LET n == CHOOSE n \in present : \A m \in present : n <= m
             IN  RankPriorityEncode(
                    MergeAt(tokens, FirstOccurrence(tokens, table[n]), 256 + n - 1),
                    table)

(* A table as build_vocab makes them: no pair twice, and both tokens of    *)
(* the rule at rank r are bytes or ids of earlier rules.                   *)
WellFormedTable(table) ==
    /\ \A a, b \in 1..Len(table) : a # b => table[a] # table[b]
    /\ \A n \in 1..Len(table) : table[n][1] < 255 + n /\ table[n][2] < 255 + n

(* A key at the scan position is merged there, whatever the ranks of the   *)
(* other pairs present in the sequence.                                    *)
C15_MergesAtScan ==
    \A e \in Encoders :
        (ScanStep(e) /\ PairAt(enc[e].tokens, enc[e].i) \in TableKeys) =>
            /\ Len(enc'[e].tokens) = Len(enc[e].tokens) - 1
            /\ enc'[e].tokens[enc[e].i + 1]
                 = 256 + LastPosition(PairAt(enc[e].tokens, enc[e].i))

(* Table [(169,97), (195,169)] on the bytes 195, 169, 97: the two pairs    *)
(* share the token 169 and the later one has the lower rank; bpe_encode    *)
(* gives [257, 97], the reference [195, 256].                              *)
C15_Example ==
    \A e \in Encoders :
        (/\ enc[e].pc = "done"
         /\ enc[e].text = <<233, 97>>
         /\ merges = << <<169, 97>>, <<195, 169>> >>)
        => /\ WellFormedTable(merges)
           /\ enc[e].tokens = <<257, 97>>
           /\ RankPriorityEncode(Utf8(enc[e].text), merges) = <<195, 256>>

-----------------------------------------------------------------------------
(* Length of the working sequence of build_vocab. *)

Started(r) == bv[r].pc \in {"for", "done"}

(* No step lengthens the working sequence, and a step that appends a rule  *)
(* replaces an occurrence or more of it, each shortening the sequence by   *)
(* one.                                                                    *)
C16_Step ==
    \A r \in Runs :
        Started(r) =>
            /\ Len(bv'[r].tokens) <= Len(bv[r].tokens)
            /\ Appends(r) =>
                  /\ Occurrences(bv[r].tokens, NewRule(r)) >= 1
                  /\ Len(bv'[r].tokens) <= Len(bv[r].tokens) - 1

(* Of two runs on one corpus, the one that has taken as many steps or      *)
(* more holds a sequence that is no longer; after the same number of steps *)
(* the lengths are equal, whatever the budgets.                            *)
C16_Budget ==
    \A r1, r2 \in Runs :
        (/\ Started(r1) /\ Started(r2)
         /\ bv[r1].text = bv[r2].text
         /\ bv[r1].k <= bv[r2].k)
        => Len(bv[r2].tokens) <= Len(bv[r1].tokens)

(* C16: the working sequence of build_vocab never grows from one training  *)
(* step to the next, every step that appends a rule shortens it by one or  *)
(* more, and a larger num_merges never makes the sequence after step j     *)
(* longer than a smaller one does.                                         *)
C16_NeverLonger == []C16_Budget /\ [][C16_Step]_vars

(* Two runs returned, the larger budget with the shorter sequence, both    *)
(* shorter than the corpus.                                                *)
C16_Witness ==
    /\ Returned(1) /\ Returned(2)
    /\ bv[1].num_merges < bv[2].num_merges
    /\ Len(bv[2].tokens) < Len(bv[1].tokens)
    /\ Len(bv[1].tokens) < Len(Utf8(bv[1].text))

-----------------------------------------------------------------------------
(* Bytes a token sequence stands for. *)

(* expand(t) = [t] for a byte and expand(left) ++ expand(right) for the id *)
(* of a rule; <<-1>> for an id with no rule or a rule nested deeper than   *)
(* the table is long.                                                      *)
RECURSIVE Expand(_, _, _)
Expand(t, table, depth) ==
    IF t < 256 THEN <<t>>
    ELSE IF t - 255 > Len(table) \/ depth = 0 THEN <<-1>>
    ELSE Expand(table[t - 255][1], table, depth - 1)
         \o Expand(table[t - 255][2], table, depth - 1)

RECURSIVE ExpandAll(_, _)
ExpandAll(tokens, table) ==
    IF tokens = <<>> THEN <<>>
    ELSE Expand(Head(tokens), table, Len(table)) \o ExpandAll(Tail(tokens), table)

(* C17: byte conservation: for a table build_vocab returned and any text,  *)
(* at every step of bpe_encode and for its result, the expansion of the    *)
(* token sequence is the UTF-8 bytes of the text; the same holds for the   *)
(* working sequence of build_vocab and the corpus after every step.        *)
C17_ByteConservation ==
    /\ \A e \in Encoders :
          enc[e].pc \in {"while", "scan", "done"} =>
              ExpandAll(enc[e].tokens, merges) = Utf8(enc[e].text)
    /\ \A r \in Runs :
          Started(r) => ExpandAll(bv[r].tokens, bv[r].merges) = Utf8(bv[r].text)

(* A text that is not the corpus was encoded to a sequence two tokens or   *)
(* more shorter than its bytes, holding the id of the second rule.         *)
C17_Witness ==
    /\ enc[1].pc = "done"
    /\ enc[1].text # bv[1].text
    /\ Len(enc[1].tokens) <= Len(Utf8(enc[1].text)) - 2
    /\ 257 \in TokenSet(enc[1].tokens)

-----------------------------------------------------------------------------
(* Tables of build_vocab. *)

(* C19: every table of build_vocab is well-founded: both tokens of the     *)
(* rule at rank r are smaller than 256 + r (bytes, or ids of rules learned *)
(* strictly earlier), and every token of the working sequence after step r *)
(* is smaller than 256 + r + 1.                                            *)
C19_WellFounded ==
    \A r \in Runs :
        /\ \A n \in 1..Len(bv[r].merges) :
              /\ bv[r].merges[n][1] \in 0..(254 + n)
              /\ bv[r].merges[n][2] \in 0..(254 + n)
        /\ \A j \in 1..Len(bv[r].tokens) :
              bv[r].tokens[j] \in 0..(255 + Len(bv[r].merges))

(* A third rule made of the id of the second. *)
C19_Witness ==
    /\ Returned(1)
    /\ Len(bv[1].merges) = 3
    /\ bv[1].merges[3][1] = 257
    /\ 258 \in TokenSet(bv[1].tokens)

-----------------------------------------------------------------------------
(* Encoding the corpus with its own table. *)

(* C18: encoding the training corpus with the table learned from it gives  *)
(* the working sequence build_vocab holds after its last training step.    *)
C18_EncodeReproducesTraining ==
    (/\ enc[1].pc = "done"
     /\ Returned(1)
     /\ enc[1].text = bv[1].text
     /\ merges = bv[1].merges)
    => enc[1].tokens = bv[1].tokens

====
